---- MODULE Spec2Model ----
(***************************************************************************)
(* Model of frontend/script.js: the click listener of the microphone       *)
(* button, startRecording, the MediaRecorder callbacks it installs,        *)
(* stopRecording, sendAudioToApi, displayResponse and the two helpers.     *)
(*                                                                         *)
(* The JavaScript runs on one event loop: every handler runs to its next   *)
(* await (or to its end) without interruption, and the platform decides    *)
(* in which order pending promises and events are delivered.  One action   *)
(* is one such run of script code.                                         *)
(***************************************************************************)
EXTENDS Naturals, Sequences, FiniteSets, TLC

\* ---------------------------------------------------------------- bounds
\* Number of startRecording() calls that get as far as getUserMedia.
MaxSessions == 2
\* Number of non-empty dataavailable events a recorder delivers while it is
\* recording (the final one, fired with the stop event, comes on top).
MaxChunks == 1

Sessions == 1..MaxSessions
\* Sizes (bytes) of the Blob a dataavailable event carries.
ChunkSizes == {0, 1, 2}

\* ------------------------------------------------------------- constants
PreferredMime == "audio/webm;codecs=opus"
FallbackBlobType == "audio/webm"
IdleLabel == "Click me to ask your technological questions"

\* err.message of a rejected getUserMedia (the user declined / no device).
GumErrors == {"Permission denied", "Requested device not found"}
\* err.message of a MediaRecorder constructor or start() that throws.
RecorderError == "Failed to construct 'MediaRecorder'"
\* event.error.name of a MediaRecorder error event.
RecorderFaults == {"UnknownError"}
\* error.message of a fetch that gets no response, and of a body that is no JSON.
NetworkFailure == "Failed to fetch"
JsonFailure == "Unexpected token < in JSON"

\* What fetch resolves with: ok, status and statusText of the Response.
Responses ==
    { [ok |-> TRUE,  status |-> "200", statusText |-> "OK"],
      [ok |-> FALSE, status |-> "500", statusText |-> "Internal Server Error"] }

\* What response.json() resolves with.  A field the body does not carry is
\* undefined in JavaScript; it is "" here, which is falsy like undefined.
Urls == {"", "https://cdn.example/resp1.mp3"}
JsonBodies ==
    { [transcript |-> t, audioUrl |-> u, error |-> "", message |-> ""] :
          t \in {"", "Turn on Wi-Fi by..."}, u \in Urls }
    \cup
    { [transcript |-> "", audioUrl |-> "", error |-> e, message |-> m] :
          e \in {"", "upstream failure"}, m \in {"", "Internal server error"} }

\* ----------------------------------------------------------------- state
VARIABLES
    supported,      \* navigator.mediaDevices.getUserMedia exists
    page,           \* module-level variables and DOM fields of script.js
    pc,             \* per session: where its chain of callbacks stands
    stream,         \* per session: the MediaStream getUserMedia gave
    recState,       \* per session: MediaRecorder.state of its recorder
    mimeType,       \* per session: MediaRecorder.mimeType of its recorder
    captured,       \* per session: non-empty chunks its recorder delivered
    blob,           \* per session: the Blob built by its onstop
    body,           \* per session: the request body of its fetch
    response,       \* per session: the Response its fetch resolved with
    requests,       \* per session: calls of fetch made for it so far
    lastGrant,      \* the session whose startRecording last got access (0: none)
    outcome         \* the terminal outcome the last step reached, if any

vars == <<supported, page, pc, stream, recState, mimeType, captured, blob,
          body, response, requests, lastGrant, outcome>>

plat == <<stream, recState, mimeType, captured, blob, body, response>>

NoBlob == [chunks |-> <<>>, type |-> ""]
NoResponse == [ok |-> FALSE, status |-> "", statusText |-> ""]
NoBody == [prefix |-> "", text |-> [chars |-> 0, pad |-> 0]]
\* outcome: which session the last step ended, how, and from which position.
NoOutcome == [session |-> 0, kind |-> "none", from |-> "none"]

\* ---------------------------------------------------------------- helpers

\* updateStatus(message, isError = false) (207-211)
updateStatus(p, message, isError) ==
    [p EXCEPT !.statusMessage = message, !.statusError = isError]

\* resetMicButton() without its first line: the flag is left as it was.
resetMicButton_KeepsFlag(p) ==
    [p EXCEPT !.recordingClass = FALSE,
              !.micText = IdleLabel]

\* resetMicButton() (213-218)
resetMicButton(p) ==
    [p EXCEPT !.isRecording = FALSE,
              !.recordingClass = FALSE,
              !.micText = IdleLabel]

\* The page right after the script has been evaluated (lines 14-22, 236).
InitialPage(sup) ==
    LET p0 == [isRecording    |-> FALSE,
               mediaRecorder  |-> 0,        \* 0: undefined or null
               audioChunks    |-> <<>>,
               statusMessage  |-> "",
               statusError    |-> FALSE,
               micText        |-> IdleLabel,
               recordingClass |-> FALSE,
               micDisabled    |-> FALSE,
               responseArea   |-> "",       \* style.display, "" = not set
               transcriptOutput |-> "",
               audioSrc       |-> "",
               audioDisplay   |-> ""]
        p1 == IF sup THEN p0
              ELSE [updateStatus(p0, "Media Devices API not supported by your browser.", TRUE)
                        EXCEPT !.micDisabled = TRUE]
    IN  updateStatus(p1, "Click the microphone button to start.", FALSE)

Init ==
    /\ supported \in BOOLEAN
    /\ page = InitialPage(supported)
    /\ pc = [s \in Sessions |-> "unused"]
    /\ stream = [s \in Sessions |-> "none"]
    /\ recState = [s \in Sessions |-> "none"]
    /\ mimeType = [s \in Sessions |-> ""]
    /\ captured = [s \in Sessions |-> 0]
    /\ blob = [s \in Sessions |-> NoBlob]
    /\ body = [s \in Sessions |-> NoBody]
    /\ response = [s \in Sessions |-> NoResponse]
    /\ requests = [s \in Sessions |-> 0]
    /\ lastGrant = 0
    /\ outcome = NoOutcome


Ended(s, kind) == [session |-> s, kind |-> kind, from |-> pc[s]]

\* ------------------------------------------------------- the click listener

\* Sessions are numbered in the order startRecording() reaches getUserMedia.
Started == {s \in Sessions : pc[s] # "unused"}
NextSession == Cardinality(Started) + 1

\* The click listener's test (26): the press starts a recording.
PressStarts(p) == ~p.isRecording

\* micButton click, !isRecording: startRecording() up to its await (25-42).
\* A disabled button dispatches no click event.
ClickStart ==
    /\ ~page.micDisabled
    /\ PressStarts(page)
    /\ IF ~supported
       THEN /\ page' = updateStatus(page, "Media Devices API not supported.", TRUE)
            /\ UNCHANGED pc
       ELSE /\ NextSession \in Sessions
            /\ page' = updateStatus(page, "Requesting microphone access...", FALSE)
            /\ pc' = [pc EXCEPT ![NextSession] = "requesting"]
    /\ outcome' = NoOutcome
    /\ UNCHANGED <<supported, lastGrant, requests, plat>>

\* stopRecording(): whether the recorder the module variable refers to is stopped.
StopsRecorder(p) ==
    /\ p.mediaRecorder # 0
    /\ recState[p.mediaRecorder] = "recording"

\* stopRecording(): the page it leaves (127-139).
stopRecording(p) ==
    IF StopsRecorder(p)
    THEN [updateStatus(p, "Stopping recording...", FALSE)
              EXCEPT !.isRecording = FALSE,
                     !.recordingClass = FALSE,
                     !.micText = "Processing..."]
    ELSE resetMicButton(p)

\* micButton click, isRecording: stopRecording().  MediaRecorder.stop() makes
\* the recorder inactive at once and queues the task that fires its last
\* dataavailable event and then its stop event.
ClickStop ==
    /\ ~page.micDisabled
    /\ ~PressStarts(page)
    /\ page' = stopRecording(page)
    /\ IF StopsRecorder(page)
       THEN /\ recState' = [recState EXCEPT ![page.mediaRecorder] = "inactive"]
            /\ pc' = [pc EXCEPT ![page.mediaRecorder] = "stopping"]
       ELSE UNCHANGED <<recState, pc>>
    /\ outcome' = NoOutcome
    /\ UNCHANGED <<supported, lastGrant, requests, stream, mimeType, captured, blob, body, response>>

\* ------------------------------------------------------------ startRecording

\* startRecording() after a granted getUserMedia without line 53.
recordingStarted_KeepsChunks(p) ==
    [updateStatus(p, "Recording started...", FALSE)
         EXCEPT !.isRecording = TRUE,
                !.recordingClass = TRUE,
                !.micText = "Recording... Click to stop",
                !.responseArea = "none",
                !.transcriptOutput = "",
                !.audioSrc = "",
                !.audioDisplay = "none"]

\* startRecording() after a granted getUserMedia, lines 43-53.
recordingStarted(p) ==
    [updateStatus(p, "Recording started...", FALSE)
         EXCEPT !.isRecording = TRUE,
                !.recordingClass = TRUE,
                !.micText = "Recording... Click to stop",
                !.responseArea = "none",
                !.transcriptOutput = "",
                !.audioSrc = "",
                !.audioDisplay = "none",
                !.audioChunks = <<>>]

\* The catch of startRecording (120-124).
microphoneFailed(p, message) ==
    resetMicButton(updateStatus(p,
        "Could not access microphone: " \o message \o ". Please grant permission.", TRUE))

\* The stream of a session whose recorder could not be made or started:
\* the catch of startRecording stops no track (120-124).
StreamAfterRecorderFailure == "active"

\* getUserMedia resolves with a stream; the rest of startRecording runs
\* (43-118).  prefOk / defOk: whether the MediaRecorder constructor accepts
\* the preferred mimeType / no mimeType; startOk: whether start() returns.
GetUserMediaGranted(s, prefOk, defOk, startOk) ==
    /\ pc[s] = "requesting"
    /\ LET p1 == recordingStarted(page)
           built == prefOk \/ defOk
           p2 == IF built THEN [p1 EXCEPT !.mediaRecorder = s] ELSE p1
       IN  IF built /\ startOk
           THEN /\ page' = p2
                /\ stream' = [stream EXCEPT ![s] = "active"]
                /\ recState' = [recState EXCEPT ![s] = "recording"]
                /\ mimeType' = [mimeType EXCEPT ![s] = IF prefOk THEN PreferredMime ELSE ""]
                /\ pc' = [pc EXCEPT ![s] = "recording"]
                /\ outcome' = NoOutcome
           ELSE /\ page' = microphoneFailed(p2, RecorderError)
                /\ stream' = [stream EXCEPT ![s] = StreamAfterRecorderFailure]
                /\ recState' = [recState EXCEPT ![s] = IF built THEN "inactive" ELSE "none"]
                /\ mimeType' = [mimeType EXCEPT ![s] =
                                    IF built /\ prefOk THEN PreferredMime ELSE ""]
                /\ pc' = [pc EXCEPT ![s] = "done"]
                /\ outcome' = Ended(s, "DeviceUnavailable")
    /\ lastGrant' = s
    /\ UNCHANGED <<supported, requests, captured, blob, body, response>>

\* getUserMedia rejects: the catch of startRecording (120-124).
GetUserMediaRejected(s, message) ==
    /\ pc[s] = "requesting"
    /\ page' = microphoneFailed(page, message)
    /\ pc' = [pc EXCEPT ![s] = "done"]
    /\ outcome' = Ended(s, IF message = "Permission denied" THEN "PermissionDenied"
                           ELSE "DeviceUnavailable")
    /\ UNCHANGED <<supported, lastGrant, requests, plat>>

\* ------------------------------------------------------ recorder callbacks

\* mediaRecorder.ondataavailable (67-72); the handler reads the module
\* variable audioChunks, whichever session assigned it last.
ondataavailable(p, chunk) ==
    IF chunk.size > 0
    THEN [p EXCEPT !.audioChunks = Append(@, chunk)]
    ELSE p

Chunk(s, size) == [rec |-> s, idx |-> captured[s] + 1, size |-> size]

\* A dataavailable event of a recorder that is recording.
DataAvailable(s, size) ==
    /\ pc[s] = "recording"
    /\ size > 0 => captured[s] < MaxChunks
    /\ page' = ondataavailable(page, Chunk(s, size))
    /\ captured' = [captured EXCEPT ![s] = IF size > 0 THEN @ + 1 ELSE @]
    /\ outcome' = NoOutcome
    /\ UNCHANGED <<supported, lastGrant, requests, pc, stream, recState, mimeType, blob, body, response>>

\* mediaRecorder.onerror (105-115).
onerror(p, name) ==
    [resetMicButton(
        [updateStatus(p, "Recording error: " \o name, TRUE) EXCEPT !.isRecording = FALSE])
     EXCEPT !.mediaRecorder = 0]

\* The recorder of session s fails while recording: the platform makes it
\* inactive and fires error (onerror stops the tracks of the stream, 111-113);
\* the task that fires its last dataavailable and its stop event follows.
DeviceError(s, name) ==
    /\ pc[s] = "recording"
    /\ page' = onerror(page, name)
    /\ recState' = [recState EXCEPT ![s] = "inactive"]
    /\ stream' = [stream EXCEPT ![s] = "stopped"]
    /\ pc' = [pc EXCEPT ![s] = "errored"]
    /\ outcome' = Ended(s, "RecordingFailed")
    /\ UNCHANGED <<supported, lastGrant, requests, mimeType, captured, blob, body, response>>

\* The emptiness test of onstop left out: every stop goes on to the Blob.
NoChunks_Never(p) == Len(p.audioChunks) < 0

\* mediaRecorder.onstop: no chunk is stored (76).
NoChunks(p) == Len(p.audioChunks) = 0

\* mediaRecorder.onstop reads mediaRecorder.mimeType of the module variable:
\* a TypeError when that is null (85).
OnstopThrows(p) == p.mediaRecorder = 0

\* new Blob(audioChunks, {type: mediaRecorder.mimeType || 'audio/webm'}) (85).
NewBlob(p) ==
    [chunks |-> p.audioChunks,
     type   |-> IF mimeType[p.mediaRecorder] # "" THEN mimeType[p.mediaRecorder]
                ELSE FallbackBlobType]

\* mediaRecorder.onstop with no chunk stored (76-81).
onstopEmpty(p) ==
    resetMicButton(updateStatus(p, "No audio was recorded. Please try again.", TRUE))

\* The stream of a session whose onstop found no chunk: the early return
\* comes before the tracks are stopped (76-81, 89).
StreamAfterEmptyStop(st) == st

\* mediaRecorder.onstop with chunks, up to its await (83-95).
onstopProcessing(p) ==
    updateStatus([p EXCEPT !.mediaRecorder = 0], "Processing audio...", FALSE)

\* The task MediaRecorder.stop() or a recorder error queued: the last
\* dataavailable event of recorder s, then its stop event (67-72, 74-95).
StopTask(s, size) ==
    /\ pc[s] \in {"stopping", "errored"}
    /\ LET p1 == ondataavailable(page, Chunk(s, size))
       IN  /\ captured' = [captured EXCEPT ![s] = IF size > 0 THEN @ + 1 ELSE @]
           /\ IF NoChunks(p1)
              THEN /\ page' = onstopEmpty(p1)
                   /\ pc' = [pc EXCEPT ![s] = "done"]
                   /\ stream' = [stream EXCEPT ![s] = StreamAfterEmptyStop(@)]
                   /\ outcome' = Ended(s, "NoAudioCaptured")
                   /\ UNCHANGED blob
              ELSE IF OnstopThrows(p1)
              THEN \* the async handler rejects; nothing handles the rejection
                   /\ page' = p1
                   /\ pc' = [pc EXCEPT ![s] = "done"]
                   /\ outcome' = Ended(s, "Unhandled")
                   /\ UNCHANGED <<stream, blob>>
              ELSE /\ page' = onstopProcessing(p1)
                   /\ blob' = [blob EXCEPT ![s] = NewBlob(p1)]
                   /\ stream' = [stream EXCEPT ![s] = "stopped"]
                   /\ pc' = [pc EXCEPT ![s] = "encoding"]
                   /\ outcome' = NoOutcome
    /\ UNCHANGED <<supported, lastGrant, requests, recState, mimeType, body, response>>

\* ------------------------------------------------------------ blobToBase64

RECURSIVE TotalBytes(_)
TotalBytes(chunks) ==
    IF chunks = <<>> THEN 0 ELSE Head(chunks).size + TotalBytes(Tail(chunks))

\* Base64 text of n bytes: 4 characters for every 3 bytes begun, of which
\* the last (3 - n % 3) % 3 are the padding character.
Base64(n) ==
    [chars |-> 4 * ((n + 2) \div 3), pad |-> (3 - (n % 3)) % 3]

\* FileReader.readAsDataURL(blob): "data:<type>;base64,<base64 text>" (221-233).
blobToBase64(b) ==
    [prefix |-> "data:" \o b.type \o ";base64", text |-> Base64(TotalBytes(b.chunks))]

\* sendAudioToApi without line 143: the data URL is sent as it is.
RequestBody_KeepsPrefix(dataUrl) == dataUrl

\* base64AudioString.split(',')[1] || base64AudioString (143).  Neither the
\* prefix nor base64 text holds a comma, so the split is at the one comma.
RequestBody(dataUrl) ==
    IF dataUrl.text.chars > 0
    THEN [prefix |-> "", text |-> dataUrl.text]
    ELSE dataUrl

\* Two calls of fetch where the code makes one.
fetchIssued_Twice(n) == n + 2

\* The number of requests after one call of fetch(API_ENDPOINT, ...) (149).
fetchIssued(n) == n + 1

\* blobToBase64 resolves; onstop resumes and calls sendAudioToApi, which runs
\* to its await of fetch (95-97, 141-161): the one place a request is issued.
\* The Blob is not used again.
EncodeResolved(s) ==
    /\ pc[s] = "encoding"
    /\ body' = [body EXCEPT ![s] = RequestBody(blobToBase64(blob[s]))]
    /\ blob' = [blob EXCEPT ![s] = NoBlob]
    /\ page' = updateStatus(page, "Sending audio to Via...", FALSE)
    /\ requests' = [requests EXCEPT ![s] = fetchIssued(@)]
    /\ pc' = [pc EXCEPT ![s] = "fetching"]
    /\ outcome' = NoOutcome
    /\ UNCHANGED <<supported, lastGrant, stream, recState, mimeType, captured, response>>

\* blobToBase64 rejects: the catch of onstop (98-102).
encodingFailed(p) ==
    resetMicButton(updateStatus(p, "Error processing audio.", TRUE))

EncodeRejected(s) ==
    /\ pc[s] = "encoding"
    /\ page' = encodingFailed(page)
    /\ blob' = [blob EXCEPT ![s] = NoBlob]
    /\ pc' = [pc EXCEPT ![s] = "done"]
    /\ outcome' = Ended(s, "EncodingFailed")
    /\ UNCHANGED <<supported, lastGrant, requests, stream, recState, mimeType, captured, body, response>>

\* ---------------------------------------------------------- sendAudioToApi

\* The catch and finally of sendAudioToApi (181-187).
sendFailed(p, message) ==
    resetMicButton(updateStatus(p, "Failed to get response: " \o message, TRUE))

\* fetch rejects: no response at all.
FetchRejected(s) ==
    /\ pc[s] = "fetching"
    /\ page' = sendFailed(page, NetworkFailure)
    /\ body' = [body EXCEPT ![s] = NoBody]
    /\ pc' = [pc EXCEPT ![s] = "done"]
    /\ outcome' = Ended(s, "NetworkError")
    /\ UNCHANGED <<supported, lastGrant, requests, stream, recState, mimeType, captured, blob, response>>

\* fetch resolves with a Response; both branches await response.json() next.
FetchResolved(s, r) ==
    /\ pc[s] = "fetching"
    /\ response' = [response EXCEPT ![s] = r]
    /\ body' = [body EXCEPT ![s] = NoBody]
    /\ pc' = [pc EXCEPT ![s] = "parsing"]
    /\ outcome' = NoOutcome
    /\ UNCHANGED <<supported, lastGrant, requests, page, stream, recState, mimeType, captured, blob>>

\* `Error: ${response.status} ${response.statusText}` (165).
GenericMessage(r) == "Error: " \o r.status \o " " \o r.statusText

\* The body's message preferred to its error.
ErrorMessage_MessageFirst(r, data) ==
    IF data.message # "" THEN data.message
    ELSE IF data.error # "" THEN data.error
    ELSE GenericMessage(r)

\* errorData.error || errorData.message || errorMsg (168).
ErrorMessage(r, data) ==
    IF data.error # "" THEN data.error
    ELSE IF data.message # "" THEN data.message
    ELSE GenericMessage(r)

\* displayResponse: data.transcript && data.audioUrl (191).
ValidPayload(data) == data.transcript # "" /\ data.audioUrl # ""

\* displayResponse(data) without the assignment of audioPlayer.src.
displayResponse_NoAudio(p, data) ==
    IF data.transcript # "" /\ data.audioUrl # ""
    THEN updateStatus([p EXCEPT !.transcriptOutput = data.transcript,
                                !.audioDisplay = "block",
                                !.responseArea = "block"],
                      "Response loaded. Press play to listen.", FALSE)
    ELSE [updateStatus(p, "Received an invalid response from the assistant.", TRUE)
              EXCEPT !.responseArea = "none"]

\* displayResponse(data) (190-203).
displayResponse(p, data) ==
    IF ValidPayload(data)
    THEN updateStatus([p EXCEPT !.transcriptOutput = data.transcript,
                                !.audioSrc = data.audioUrl,
                                !.audioDisplay = "block",
                                !.responseArea = "block"],
                      "Response loaded. Press play to listen.", FALSE)
    ELSE [updateStatus(p, "Received an invalid response from the assistant.", TRUE)
              EXCEPT !.responseArea = "none"]

\* A resolved body of a successful response (176-179, 184-187).
sendSucceeded(p, data) ==
    resetMicButton(updateStatus(displayResponse(p, data), "Response received.", FALSE))

\* A resolved body of a non-success response (166-173, 181-187).
remoteFailed(p, r, data) == sendFailed(p, ErrorMessage(r, data))

\* response.json() resolves with the parsed body.
JsonResolved(s, data) ==
    /\ pc[s] = "parsing"
    /\ IF response[s].ok
       THEN /\ page' = sendSucceeded(page, data)
            /\ outcome' = Ended(s, IF ValidPayload(data) THEN "Success"
                                   ELSE "InvalidResponseShape")
       ELSE /\ page' = remoteFailed(page, response[s], data)
            /\ outcome' = Ended(s, "RemoteError")
    /\ response' = [response EXCEPT ![s] = NoResponse]
    /\ pc' = [pc EXCEPT ![s] = "done"]
    /\ UNCHANGED <<supported, lastGrant, requests, stream, recState, mimeType, captured, blob, body>>

\* response.json() rejects: the body is no JSON.  For a non-success response
\* the inner catch keeps the generic message (169-173).
JsonRejected(s) ==
    /\ pc[s] = "parsing"
    /\ IF response[s].ok
       THEN /\ page' = sendFailed(page, JsonFailure)
            /\ outcome' = Ended(s, "UnreadableBody")
       ELSE /\ page' = sendFailed(page, GenericMessage(response[s]))
            /\ outcome' = Ended(s, "RemoteError")
    /\ response' = [response EXCEPT ![s] = NoResponse]
    /\ pc' = [pc EXCEPT ![s] = "done"]
    /\ UNCHANGED <<supported, lastGrant, requests, stream, recState, mimeType, captured, blob, body>>

\* ------------------------------------------------------------ specification

Next ==
    \/ ClickStart
    \/ ClickStop
    \/ \E s \in Sessions, prefOk \in BOOLEAN, defOk \in BOOLEAN, startOk \in BOOLEAN :
           GetUserMediaGranted(s, prefOk, defOk, startOk)
    \/ \E s \in Sessions, m \in GumErrors : GetUserMediaRejected(s, m)
    \/ \E s \in Sessions, n \in ChunkSizes : DataAvailable(s, n)
    \/ \E s \in Sessions, f \in RecorderFaults : DeviceError(s, f)
    \/ \E s \in Sessions, n \in ChunkSizes : StopTask(s, n)
    \/ \E s \in Sessions : EncodeResolved(s)
    \/ \E s \in Sessions : EncodeRejected(s)
    \/ \E s \in Sessions : FetchRejected(s)
    \/ \E s \in Sessions, r \in Responses : FetchResolved(s, r)
    \/ \E s \in Sessions, d \in JsonBodies : JsonResolved(s, d)
    \/ \E s \in Sessions : JsonRejected(s)

Spec == Init /\ [][Next]_vars


\* The platform settles what is pending: getUserMedia, the stop task,
\* FileReader, fetch and response.json() each complete, one way or another.
GetUserMediaSettles(s) ==
    \/ \E prefOk \in BOOLEAN, defOk \in BOOLEAN, startOk \in BOOLEAN :
           GetUserMediaGranted(s, prefOk, defOk, startOk)
    \/ \E m \in GumErrors : GetUserMediaRejected(s, m)
StopTaskRuns(s) == \E n \in ChunkSizes : StopTask(s, n)
EncodeSettles(s) == EncodeResolved(s) \/ EncodeRejected(s)
FetchSettles(s) == FetchRejected(s) \/ \E r \in Responses : FetchResolved(s, r)
JsonSettles(s) == JsonRejected(s) \/ \E d \in JsonBodies : JsonResolved(s, d)

FairSpec ==
    /\ Spec
    /\ \A s \in Sessions :
          /\ WF_vars(GetUserMediaSettles(s))
          /\ WF_vars(StopTaskRuns(s))
          /\ WF_vars(EncodeSettles(s))
          /\ WF_vars(FetchSettles(s))
          /\ WF_vars(JsonSettles(s))

\* ------------------------------------------------- states of a RecordingSession

\* The state of session s in the terms of the interaction state machine:
\* Requesting while getUserMedia is pending, Recording while its recorder
\* records, Stopping from stop() to the stop event, Processing while the
\* encoding, the fetch or the reading of the response body is pending.
SessState(s) ==
    CASE pc[s] = "requesting" -> "Requesting"
      [] pc[s] = "recording"  -> "Recording"
      [] pc[s] = "stopping"   -> "Stopping"
      [] pc[s] \in {"encoding", "fetching", "parsing"} -> "Processing"
      [] OTHER -> "Idle"

MachineIdle == \A s \in Sessions : SessState(s) = "Idle"

InState(st) == {s \in Sessions : SessState(s) = st}

\* A press of the control: the click listener ran.
Press == ClickStart \/ ClickStop


\* ------------------------------------------------------------------ claims

\* The arrows of the order Idle -> Requesting -> (Recording -> Stopping ->
\* Processing -> Idle | Idle), for one step of session s.
C1_Edge(s) ==
    LET a == SessState(s)
        b == SessState(s)'
    IN  a # b =>
          \/ a = "Idle" /\ b = "Requesting" /\ pc[s] = "unused" /\ MachineIdle
          \/ a = "Requesting" /\ b \in {"Recording", "Idle"}
          \/ a = "Recording" /\ b = "Stopping"
          \/ a = "Stopping" /\ b = "Processing"
          \/ a = "Stopping" /\ b = "Idle" /\ Len(page'.audioChunks) = 0
          \/ a = "Processing" /\ b = "Idle"

\* C1: the machine visits its states in the order Idle -> Requesting ->
\* (Recording -> Stopping -> Processing -> Idle | Idle): a session leaves
\* Idle only for Requesting and only when no other session is under way,
\* every later step of a session follows one arrow of that order, a Stopping
\* session goes to Idle instead of Processing only when no chunk is stored,
\* and no session comes back to a state it has left.
C1_StateOrder == [][\A s \in Sessions : C1_Edge(s)]_vars

\* The machine is in the middle of a cycle and not recording.
C2_MidCycle ==
    /\ InState("Recording") = {}
    /\ InState("Requesting") \cup InState("Stopping") \cup InState("Processing") # {}

\* C2: a press while a session is Requesting, Stopping or Processing (and
\* none is Recording) is ignored: no new access request, no recorder, no
\* reset of the chunks, state and status unchanged.
C2_PressIgnored ==
    [][(Press /\ C2_MidCycle) => UNCHANGED <<page, pc, plat>>]_vars

\* C3: at most one fetch issued by sendAudioToApi is in flight.
C3_OneRequestInFlight ==
    Cardinality({s \in Sessions : pc[s] = "fetching"}) <= 1

\* C4: at most one RecordingSession is active: never more than one pending
\* access request, one recorder recording, or one stream held.
C4_OneActiveSession ==
    /\ Cardinality({s \in Sessions : pc[s] = "requesting"}) <= 1
    /\ Cardinality({s \in Sessions : recState[s] = "recording"}) <= 1
    /\ Cardinality({s \in Sessions : stream[s] = "active"}) <= 1

\* C5: the microphone is released on every exit path: no session that is
\* back in Idle still holds its stream.
C5_DeviceReleased ==
    \A s \in Sessions : SessState(s) = "Idle" => stream[s] # "active"


\* The failure kinds of the error taxonomy, and the terminal outcomes.
FailureKinds ==
    {"PermissionDenied", "DeviceUnavailable", "RecordingFailed", "NoAudioCaptured",
     "EncodingFailed", "NetworkError", "RemoteError", "InvalidResponseShape"}
TerminalKinds == FailureKinds \cup {"Success"}

\* After a terminal outcome the session is Idle and a press starts a cycle.
C6_Pressable ==
    outcome.kind \in TerminalKinds =>
        /\ SessState(outcome.session) = "Idle"
        /\ PressStarts(page)
        /\ ~page.micDisabled
        /\ NextSession \in Sessions => ENABLED ClickStart

\* What is pending for session s gets settled.
C6_Settles(s) ==
    /\ (SessState(s) = "Requesting") ~> (SessState(s) \in {"Recording", "Idle"})
    /\ (SessState(s) \in {"Stopping", "Processing"}) ~> (SessState(s) = "Idle")

\* C6: every terminal outcome returns the machine to Idle.  Once the
\* platform settles what is pending, a session that is Requesting comes to
\* Recording or Idle and one that is Stopping or Processing comes back to
\* Idle; after success and after each failure kind the session is Idle, the
\* isRecording flag is off and the control is enabled, so that the next
\* press starts a new cycle.
C6_ReturnsToIdle ==
    /\ []C6_Pressable
    /\ \A s \in Sessions : C6_Settles(s)

\* C6 witness: a send has failed with a network error, its session is Idle
\* and another cycle can be started.
C6_Witness ==
    /\ outcome.kind = "NetworkError"
    /\ SessState(outcome.session) = "Idle"
    /\ NextSession \in Sessions

C7_NoAudioMessage == "No audio was recorded. Please try again."

\* The stop event of session s, stopped by a press, with no chunk stored.
C7_EmptyStop(s) ==
    (pc[s] = "stopping" /\ pc'[s] # "stopping" /\ Len(page'.audioChunks) = 0) =>
        /\ page'.statusMessage = C7_NoAudioMessage
        /\ page'.statusError
        /\ ~page'.isRecording
        /\ page'.micText = IdleLabel
        /\ pc'[s] = "done"
        /\ SessState(s)' = "Idle"
        /\ blob' = blob
        /\ body' = body
        /\ \A o \in Sessions :
               pc'[o] \in {"encoding", "fetching"} => pc[o] = pc'[o]

C8_InvalidMessage == "Received an invalid response from the assistant."

\* C8: after a successful response that lacks transcript or audioUrl the
\* status is the invalid-response message with error severity, and
\* transcript, audio reference and response area are not rendered.
C8_InvalidResponseRejected ==
    outcome.kind = "InvalidResponseShape" =>
        /\ page.statusMessage = C8_InvalidMessage
        /\ page.statusError
        /\ page.transcriptOutput = ""
        /\ page.audioSrc = ""
        /\ page.responseArea # "block"

\* The status messages that report a failure of each kind.
C9_Messages(kind) ==
    CASE kind \in {"PermissionDenied", "DeviceUnavailable"} ->
             {"Could not access microphone: " \o m \o ". Please grant permission." :
                  m \in GumErrors \cup {RecorderError}}
      [] kind = "RecordingFailed" -> {"Recording error: " \o f : f \in RecorderFaults}
      [] kind = "NoAudioCaptured" -> {C7_NoAudioMessage}
      [] kind = "EncodingFailed" -> {"Error processing audio."}
      [] kind = "NetworkError" -> {"Failed to get response: " \o NetworkFailure}
      [] kind = "RemoteError" ->
             {"Failed to get response: " \o x :
                  x \in {"upstream failure", "Internal server error",
                         "Error: 500 Internal Server Error"}}
      [] kind = "InvalidResponseShape" -> {C8_InvalidMessage}

\* C9: when a cycle has ended in a failure of the taxonomy, the status has
\* error severity and is the message of that failure.
C9_ErrorsSurfaced ==
    outcome.kind \in FailureKinds =>
        /\ page.statusError
        /\ page.statusMessage \in C9_Messages(outcome.kind)

\* The text a non-success response is to be reported with.
C10_Text(r, d) ==
    IF d.error # "" THEN d.error
    ELSE IF d.message # "" THEN d.message
    ELSE "Error: " \o r.status \o " " \o r.statusText

\* C10 as claimed: on a non-success response the status is exactly the
\* error text of the body (its error, else its message), else the generic
\* status code + phrase message.
C10_ExactText ==
    [][\A s \in Sessions, d \in JsonBodies :
           (JsonResolved(s, d) /\ ~response[s].ok) =>
               page'.statusMessage = C10_Text(response[s], d)]_vars

\* What the handling of a non-success response leaves.
C10_NonOk(s, text) ==
    /\ page'.statusMessage = "Failed to get response: " \o text
    /\ page'.statusError
    /\ page'.transcriptOutput = page.transcriptOutput
    /\ page'.audioSrc = page.audioSrc
    /\ page'.audioDisplay = page.audioDisplay
    /\ page'.responseArea = page.responseArea
    /\ SessState(s)' = "Idle"
    /\ ~page'.isRecording

\* C10 as amended: the status is "Failed to get response: " followed by that
\* text, with error severity; the step renders nothing as a response and
\* the session is back in Idle with the isRecording flag off.
C10_RemoteErrorReported ==
    [][\A s \in Sessions :
          /\ \A d \in JsonBodies :
                 (JsonResolved(s, d) /\ ~response[s].ok) =>
                     C10_NonOk(s, C10_Text(response[s], d))
          /\ (JsonRejected(s) /\ ~response[s].ok) =>
                 C10_NonOk(s, "Error: " \o response[s].status \o " "
                                  \o response[s].statusText)]_vars

\* C10 witness: a 500 response with {"error": "upstream failure"} was reported.
C10_Witness ==
    /\ outcome.kind = "RemoteError"
    /\ page.statusMessage = "Failed to get response: upstream failure"
    /\ page.statusError

\* C11: when the body of a successful response carries both transcript and
\* audioUrl, the step that handles it leaves exactly that transcript and that
\* audio reference rendered, the response area and the player visible, a
\* success status with normal severity, and the session back in Idle.
C11_SuccessRendered ==
    [][\A s \in Sessions, d \in JsonBodies :
           (JsonResolved(s, d) /\ response[s].ok /\ ValidPayload(d)) =>
               /\ page'.transcriptOutput = d.transcript
               /\ page'.audioSrc = d.audioUrl
               /\ page'.responseArea = "block"
               /\ page'.audioDisplay = "block"
               /\ page'.statusMessage = "Response received."
               /\ ~page'.statusError
               /\ SessState(s)' = "Idle"
               /\ ~page'.isRecording]_vars

\* C11 witness: the answer of the scenario is on the page after a success.
C11_Witness ==
    /\ outcome.kind = "Success"
    /\ outcome.from = "parsing"
    /\ page.transcriptOutput = "Turn on Wi-Fi by..."
    /\ page.audioSrc = "https://cdn.example/resp1.mp3"
    /\ page.responseArea = "block"

\* What a recorder error leaves for session s at once.
C12_Failed(s, name) ==
    /\ SessState(s)' = "Idle"
    /\ stream'[s] = "stopped"
    /\ recState'[s] = "inactive"
    /\ page'.statusMessage = "Recording error: " \o name
    /\ page'.statusError
    /\ ~page'.isRecording

\* What a later step may do to a session whose recorder has failed: it stays
\* Idle with its device released and its recorder inactive, nothing is
\* encoded or sent for it, and its stop event does not replace the status.
C12_StaysFailed(s) ==
    /\ pc'[s] \in {"errored", "done"}
    /\ stream'[s] = "stopped"
    /\ recState'[s] = "inactive"
    /\ blob'[s] = NoBlob
    /\ body'[s] = NoBody
    /\ pc'[s] = "done" =>
           /\ page'.statusMessage = page.statusMessage
           /\ page'.statusError = page.statusError

\* C12: a device error during capture ends the session at once: it is Idle,
\* the device is released, the status is the recording error with error
\* severity, capture is not resumed and nothing is encoded or sent for the
\* session, also when the stop event of the failed recorder fires afterwards.
C12_DeviceErrorTerminal ==
    [][\A s \in Sessions :
          /\ \A f \in RecorderFaults : DeviceError(s, f) => C12_Failed(s, f)
          /\ pc[s] = "errored" => C12_StaysFailed(s)]_vars

\* The status messages that report the missing capability (20, 37).
C13_Messages ==
    {"Media Devices API not supported by your browser.",
     "Media Devices API not supported."}

\* C13: without the microphone capability every recording action is off:
\* whatever is pressed, no session is ever started, no access request is
\* made, no recorder is created, nothing is encoded or sent, and the status
\* reports the missing capability with error severity.
C13_Unsupported ==
    ~supported =>
        /\ \A s \in Sessions :
               /\ pc[s] = "unused"
               /\ stream[s] = "none"
               /\ recState[s] = "none"
               /\ blob[s] = NoBlob
               /\ body[s] = NoBody
        /\ ~page.isRecording
        /\ page.mediaRecorder = 0
        /\ page.statusError
        /\ page.statusMessage \in C13_Messages

\* The number of bytes a base64 text decodes to: 3 for every 4 characters,
\* less one for every padding character.
C14_DecodedBytes(text) == 3 * (text.chars \div 4) - text.pad

\* C14: the request body built from a Blob of B bytes is raw base64 text, with
\* no data-URI prefix and nothing around it, well formed, and it decodes to
\* exactly B bytes.
C14_RoundTrip ==
    [][\A s \in Sessions :
           EncodeResolved(s) =>
               LET B == TotalBytes(blob[s].chunks)
               IN  /\ B > 0
                   /\ body'[s].prefix = ""
                   /\ body'[s].text.chars % 4 = 0
                   /\ body'[s].text.pad \in 0..2
                   /\ C14_DecodedBytes(body'[s].text) = B]_vars

\* C14 witness: a request is in flight whose body is the base64 text of a
\* Blob of three bytes (two chunks): four characters, no padding, no prefix.
C14_Witness ==
    \E s \in Sessions :
        /\ pc[s] = "fetching"
        /\ body[s] = [prefix |-> "", text |-> [chars |-> 4, pad |-> 0]]

\* The outcomes that end a send.
C15_SendOutcomes ==
    {"Success", "InvalidResponseShape", "RemoteError", "NetworkError", "UnreadableBody"}

\* The requests issued for each session, by where the session stands.
C15_Counted ==
    /\ \A s \in Sessions :
          /\ requests[s] <= 1
          /\ pc[s] \in {"fetching", "parsing"} => requests[s] = 1
          /\ pc[s] \in {"unused", "requesting", "recording", "stopping",
                        "errored", "encoding"} => requests[s] = 0
    /\ outcome.kind \in C15_SendOutcomes => requests[outcome.session] = 1

\* A step issues a request only for one session whose Blob, of at least one
\* chunk, has just been encoded, and never for a session whose send is under
\* way or over.
C15_Issue ==
    /\ requests' # requests =>
          \E s \in Sessions :
              /\ pc[s] = "encoding"
              /\ Len(blob[s].chunks) > 0
              /\ requests' = [requests EXCEPT ![s] = 1]
    /\ \A s \in Sessions :
          /\ EncodeResolved(s) => requests[s] = 0 /\ requests'[s] = 1
          /\ pc[s] \in {"fetching", "parsing", "done"} => requests'[s] = requests[s]

\* C15: a session that is finalized with chunks and encoded issues exactly
\* one request; after its send has ended, in success or in NetworkError,
\* RemoteError or InvalidResponseShape, no request is issued for it again: a
\* further request is that of another recording the user made.
C15_OneRequestPerSession ==
    /\ []C15_Counted
    /\ [][C15_Issue]_vars

\* C15 witness: the only session so far has failed with a network error
\* after its one request, and nothing is pending.
C15_Witness ==
    /\ outcome.kind = "NetworkError"
    /\ requests[outcome.session] = 1
    /\ \A s \in Sessions : pc[s] \in {"unused", "done"}

\* chunks is what recorder s delivered: its n non-empty chunks, in order.
C16_OwnChunks(chunks, s, n) ==
    /\ Len(chunks) = n
    /\ \A i \in 1..Len(chunks) :
           chunks[i].rec = s /\ chunks[i].idx = i /\ chunks[i].size > 0

\* The stop event of session s finalizes the chunks of its own recorder.
C16_Finalized(s) ==
    (pc[s] \in {"stopping", "errored"} /\ pc'[s] # pc[s]) =>
        /\ pc'[s] = "encoding" => C16_OwnChunks(blob'[s].chunks, s, captured'[s])
        /\ outcome'.kind = "NoAudioCaptured" => captured'[s] = 0

\* C16: the chunk sequence finalized for a session is exactly the non-empty
\* chunks its own recorder delivered, in arrival order: no zero-length chunk
\* is stored, none is reordered or dropped, and no chunk of another session
\* is in the Blob that is encoded and sent.
C16_OwnChunksFinalized ==
    /\ [](\A i \in 1..Len(page.audioChunks) : page.audioChunks[i].size > 0)
    /\ [][\A s \in Sessions : C16_Finalized(s)]_vars

\* C17 as claimed: when the machine is back in Idle after a cycle whose send
\* has resolved, in success or in failure, or whose capture stored nothing,
\* the stored chunk sequence is empty.
C17_EmptyInIdle ==
    (MachineIdle /\ outcome.kind \in C15_SendOutcomes \cup {"NoAudioCaptured"})
        => page.audioChunks = <<>>

\* A step of session s that ends its send, its encoding or its capture.
C17_Ends(s) ==
    /\ pc[s] \in {"stopping", "errored", "encoding", "fetching", "parsing"}
    /\ pc'[s] = "done"

\* C17 as amended: the stored chunk sequence is emptied when access is
\* granted to a new recording, and by nothing else: the step that ends a
\* send, an encoding or a capture leaves the sequence as it is (but for the
\* last chunk of the stop event), so that it is empty after a capture that
\* stored nothing and holds the chunks of the cycle otherwise.
C17_DiscardedAtStart ==
    [][
        /\ \A s \in Sessions :
              /\ (pc[s] = "requesting" /\ pc'[s] # "requesting" /\ stream'[s] # "none")
                     => page'.audioChunks = <<>>
              /\ (C17_Ends(s) /\ pc[s] \in {"encoding", "fetching", "parsing"})
                     => page'.audioChunks = page.audioChunks
              /\ (C17_Ends(s) /\ outcome'.kind = "NoAudioCaptured")
                     => page'.audioChunks = <<>>
        /\ Len(page'.audioChunks) < Len(page.audioChunks) =>
              /\ page'.audioChunks = <<>>
              /\ \E o \in Sessions : pc[o] = "requesting" /\ stream'[o] # "none"
    ]_vars

\* C17 witness: the first cycle has sent its audio and is over, access has
\* been granted to the second recording, and the sequence is empty again.
C17_Witness ==
    /\ MaxSessions >= 2
    /\ pc[1] = "done"
    /\ requests[1] = 1
    /\ pc[2] = "recording"
    /\ captured[1] > 0
    /\ page.audioChunks = <<>>

\* Session s has reached Recording with a recorder of the given format and
\* no error is shown.
C18_Records(s, format) ==
    /\ SessState(s)' = "Recording"
    /\ recState'[s] = "recording"
    /\ mimeType'[s] = format
    /\ page'.isRecording
    /\ page'.statusMessage = "Recording started..."
    /\ ~page'.statusError

\* The failure of session s is reported and nothing of it is left active: no
\* recorder recording, no stream held, the flag off, the session in Idle.
C18_Reported(s) ==
    /\ page'.statusError
    /\ page'.statusMessage =
           "Could not access microphone: " \o RecorderError \o ". Please grant permission."
    /\ SessState(s)' = "Idle"
    /\ ~page'.isRecording
    /\ recState'[s] # "recording"
    /\ stream'[s] # "active"

\* C18: the recorder is made with the preferred format first and, if that
\* is rejected, with the platform default, without a word to the user: the
\* session reaches Recording with no error status.  If the default is
\* rejected as well, the failure is reported with error severity, no session
\* is left active and the machine is back in Idle.
C18_FormatNegotiation ==
    [][\A s \in Sessions :
          /\ \A defOk \in BOOLEAN :
                 GetUserMediaGranted(s, TRUE, defOk, TRUE) => C18_Records(s, PreferredMime)
          /\ GetUserMediaGranted(s, FALSE, TRUE, TRUE) => C18_Records(s, "")
          /\ \A startOk \in BOOLEAN :
                 GetUserMediaGranted(s, FALSE, FALSE, startOk) => C18_Reported(s)]_vars

\* The isRecording flag says what the recorder of the module variable does.
C19_Agree ==
    page.isRecording <=>
        (page.mediaRecorder # 0 /\ recState[page.mediaRecorder] = "recording")

\* C19: isRecording is true exactly when mediaRecorder refers to a recorder
\* that is recording; so a press while the flag is on always stops a
\* recorder (the else branch of stopRecording is never taken), and no
\* callback of an earlier session turns the flag off or clears the reference
\* while a later session records.
C19_FlagAgreesWithRecorder ==
    /\ []C19_Agree
    /\ [][ClickStop => StopsRecorder(page)]_vars

\* No answer is on the page.
C20_Cleared ==
    /\ page.transcriptOutput = ""
    /\ page.audioSrc = ""
    /\ page.responseArea # "block"

\* From the grant of the latest recording until its own send has ended, no
\* answer is on the page.
C20_StaysCleared ==
    (lastGrant # 0 /\ pc[lastGrant] # "done") => C20_Cleared

\* C20: once access is granted to a new recording the previous answer is
\* cleared and stays cleared until a valid response to that recording's own
\* send is rendered: an answer is rendered only for the latest recording, and
\* never for an earlier send during or after a later recording.
C20_AnswerOfLatestRecording ==
    /\ []C20_StaysCleared
    /\ [][\A s \in Sessions, d \in JsonBodies :
              (JsonResolved(s, d) /\ response[s].ok /\ ValidPayload(d)) =>
                  s = lastGrant]_vars

====
